---- MODULE Spec2Model ----
(***************************************************************************)
(* The custom-index builder of the index platform frontend                 *)
(* (frontend/src/pages/IndexBuilder.tsx): a four-step wizard that collects *)
(* an index configuration, posts it to /indices/custom-index and shows the *)
(* returned backtest.  The browser is single threaded: every action below  *)
(* is one event-loop task (a DOM event handler, the settlement of a        *)
(* network promise, or a timer), run to completion before the next.        *)
(***************************************************************************)
EXTENDS Integers, Sequences, FiniteSets, TLC

(***************************************************************************)
(* Bounds of the model.                                                    *)
(***************************************************************************)
\* longest index name the user types
MaxNameLen == 1
\* dates the date pickers offer: day 1 .. day MaxDate
MaxDate == 2
\* distinct backtest results the backend may return
MaxPayload == 2

(***************************************************************************)
(* Values.                                                                 *)
(***************************************************************************)
\* a text value is the sequence of its characters; '' is << >>
Chars == {"a"}
Names == UNION {[1..n -> Chars] : n \in 0..MaxNameLen}

\* the value of an <input type="date">: '' (no date chosen, written 0) or an
\* ISO date, written as its day number; ISO dates order as their day numbers
NoDate == 0
DateValues == {NoDate} \cup (1..MaxDate)

\* backtestResults: null (written 0) or the data of a response
Null == 0
Payloads == 1..MaxPayload

\* most market-cap updates (Update Visible, Update All) started on one mounted
\* Securities page
MaxUpdates == 3

\* useState initial value of indexConfig
InitialConfig ==
    [ name |-> << >>,
      description |-> << >>,
      filters |-> [ sectors |-> << >>,
                    countries |-> << >>,
                    min_market_cap |-> << >>,
                    max_market_cap |-> << >>,
                    max_constituents |-> << >> ],
      weighting_method |-> "equal_weight",
      start_date |-> NoDate,
      end_date |-> NoDate ]

\* JavaScript truthiness of a string: !s is true exactly for ''
Truthy(s) == s # << >>
\* JavaScript truthiness of a date input's value
DateTruthy(d) == d # NoDate

(***************************************************************************)
(* State.                                                                  *)
(***************************************************************************)
VARIABLES
    step,             \* useState(1)
    indexConfig,      \* useState({...})
    backtestResults,  \* useState(null)
    isRunning,        \* useState(false)
    mutationStatus,   \* backtestMutation.status: idle, pending, success, error
    backtestCalls,    \* the POSTs to /indices/custom-index in flight, oldest
                      \* first: state, body sent, data received, and by,
                      \* what issued the request
    query,            \* the sectors and countries queries of useQuery; call
                      \* is the state of the GET, by what issued it
    submitted,        \* history: how many requests were issued since the
                      \* wizard was opened or last reset: none, one, many
    localStorage,     \* the 'token' item of window.localStorage
    authContext,      \* AuthProvider: user, token, isLoading
    apiDefaults,      \* apiClient.defaults.headers.common: Authorization
    loginPage,        \* Login: username, password, error, isLoading
    authCalls,        \* the requests of AuthContext in flight, oldest first:
                      \* url, by (what issued it), anonymous (history: the
                      \* form was submitted with no token and no session)
    location,         \* the route the browser shows
    pendingNavigation,\* the URL assigned to window.location.href whose
                      \* document has not replaced the current one yet
    securitiesPage,   \* Securities: notification, timers, mutations
    deployRun,        \* one run of scripts/deploy.sh and the cluster
    lastEvent         \* history: the last event of the session, and for a
                      \* login whether it was submitted anonymously

vars == << step, indexConfig, backtestResults, isRunning, mutationStatus,
           backtestCalls, query, submitted, localStorage, authContext,
           apiDefaults, loginPage, authCalls, location, pendingNavigation,
           lastEvent, securitiesPage, deployRun >>

\* the session: authentication, the login form and the route
sessionVars == << localStorage, authContext, apiDefaults, loginPage,
                  authCalls, location, pendingNavigation, lastEvent >>

\* what the index builder leaves alone
outsideBuilder == << sessionVars, securitiesPage, deployRun >>

wizardVars == << step, indexConfig, backtestResults, isRunning, mutationStatus,
                 backtestCalls, submitted >>

\* what the session leaves alone
outsideSession == << wizardVars, query, securitiesPage, deployRun >>

\* s without its i-th element
RemoveAt(s, i) == [j \in 1..(Len(s) - 1) |-> IF j < i THEN s[j] ELSE s[j + 1]]

(***************************************************************************)
(* The query client (App.tsx) and the two queries of the page.             *)
(***************************************************************************)
\* defaultOptions.queries.retry
QueryRetry == 1

QueryKeys == {"sectors", "countries"}

\* a query as mounted by useQuery: no data yet, its first fetch issued
MountedQuery ==
    [status |-> "pending", failureCount |-> 0, call |-> "sent", by |-> "mount"]

(***************************************************************************)
(* The session: values.                                                    *)
(***************************************************************************)
\* JavaScript's null, for the string-valued state of the session
null == "null"

\* the access_token the backend issues
AccessToken == "access_token"

\* the user login() sets before it asks the backend, and the user the
\* backend returns
HardcodedUser == "hardcoded"
FetchedUser == "fetched"

\* the routes of App: the login page, the dashboard, the index builder
Routes == {"/login", "/", "/builder"}

\* the children of Layout
ProtectedRoutes == Routes \ {"/login"}

\* what the user types into the login form
Usernames == {"", "admin"}
Passwords == {"", "admin123"}

\* Login as mounted
LoginMounted ==
    [username |-> "", password |-> "", error |-> "", isLoading |-> FALSE]

\* AuthProvider as mounted, before its effect has run
AuthProviderMounted == [user |-> null, token |-> null, isLoading |-> TRUE]

\* value.isAuthenticated of the context
isAuthenticated == authContext.user # null /\ authContext.token # null

\* no event of the session yet
NoEvent == [name |-> "none", anonymous |-> FALSE]

(***************************************************************************)
(* The Securities page and the deployment script: values.                  *)
(***************************************************************************)
\* useState(null) of notification; id tells notifications apart (history:
\* the number of the update that raised it)
NoNotification == [type |-> "null", id |-> 0]

\* Securities as mounted: no notification, no timer, both bulk mutations
\* idle, the securities query still loading
SecuritiesMounted ==
    [notification |-> NoNotification,
     timers       |-> << >>,
     batch        |-> "idle",
     all          |-> "idle",
     calls        |-> << >>,
     data         |-> FALSE,
     started      |-> 0]

\* the commands of scripts/deploy.sh in order: what they are and on what
DeployScript ==
    << [cmd |-> "check", arg |-> "docker"],
       [cmd |-> "check", arg |-> "kubectl"],
       [cmd |-> "build", arg |-> "backend"],
       [cmd |-> "build", arg |-> "frontend"],
       [cmd |-> "apply", arg |-> "namespace"],
       [cmd |-> "apply", arg |-> "postgres"],
       [cmd |-> "apply", arg |-> "redis"],
       [cmd |-> "wait",  arg |-> "postgres"],
       [cmd |-> "apply", arg |-> "backend"],
       [cmd |-> "apply", arg |-> "frontend"],
       [cmd |-> "wait",  arg |-> "backend"],
       [cmd |-> "wait",  arg |-> "frontend"],
       [cmd |-> "apply", arg |-> "ingress"],
       [cmd |-> "echo",  arg |-> "Deployment completed successfully!"] >>

\* the applications whose pods run in the cluster
Apps == {"postgres", "redis", "backend", "frontend"}

\* the script about to run its first command, on a cluster without the
\* platform
DeployNotStarted ==
    [pc       |-> 1,
     status   |-> "running",
     applied  |-> {},
     ready    |-> {},
     reported |-> {},
     output   |-> {},
     done     |-> {}]

(***************************************************************************)
(* Initial state: the page has just been mounted.                          *)
(***************************************************************************)
\* IndexBuilder as mounted
InitWizard ==
    /\ step = 1
    /\ indexConfig = InitialConfig
    /\ backtestResults = Null
    /\ isRunning = FALSE
    /\ mutationStatus = "idle"
    /\ backtestCalls = << >>
    /\ query = [k \in QueryKeys |-> MountedQuery]
    /\ submitted = "none"

\* the session in which the index builder is shown: the user has logged in
\* and followed the sidebar link to /builder
SignedIn ==
    /\ localStorage = AccessToken
    /\ authContext = [user |-> FetchedUser, token |-> AccessToken,
                      isLoading |-> FALSE]
    /\ apiDefaults = [Authorization |-> AccessToken]
    /\ loginPage = LoginMounted
    /\ authCalls = << >>
    /\ location = "/builder"
    /\ pendingNavigation = null
    /\ lastEvent = NoEvent

Init ==
    /\ InitWizard
    /\ SignedIn
    /\ securitiesPage = SecuritiesMounted
    /\ deployRun = DeployNotStarted

(***************************************************************************)
(* Step 1: basic information.                                              *)
(***************************************************************************)
\* onChange of the Index Name input
SetName ==
    /\ step = 1
    /\ \E v \in Names : indexConfig' = [indexConfig EXCEPT !.name = v]
    /\ UNCHANGED << step, backtestResults, isRunning, mutationStatus,
                    backtestCalls, query, submitted,
                    outsideBuilder >>

\* faulty variant: the select offers a sixth option
WeightingOptions_WithCustom ==
    {"equal_weight", "market_cap_weight", "price_weight", "revenue_weight",
     "esg_weight", "custom_weight"}

\* the value attributes of the <option> elements of the Weighting Method
\* select
WeightingOptions ==
    {"equal_weight", "market_cap_weight", "price_weight", "revenue_weight",
     "esg_weight"}

\* onChange of the Weighting Method select
SetWeightingMethod ==
    /\ step = 1
    /\ \E v \in WeightingOptions :
          indexConfig' = [indexConfig EXCEPT !.weighting_method = v]
    /\ UNCHANGED << step, backtestResults, isRunning, mutationStatus,
                    backtestCalls, query, submitted,
                    outsideBuilder >>

\* faulty variant: the button is never disabled
NextFiltersEnabled_Always == TRUE

\* the "Next: Filters" button is disabled while the name is empty
NextFiltersEnabled == Truthy(indexConfig.name)

\* onClick of "Next: Filters"
NextFilters ==
    /\ step = 1
    /\ NextFiltersEnabled
    /\ step' = 2
    /\ UNCHANGED << indexConfig, backtestResults, isRunning, mutationStatus,
                    backtestCalls, query, submitted,
                    outsideBuilder >>

(***************************************************************************)
(* Step 2: filters.                                                        *)
(***************************************************************************)
\* onClick of "Back" on step 2
BackToBasicInfo ==
    /\ step = 2
    /\ step' = 1
    /\ UNCHANGED << indexConfig, backtestResults, isRunning, mutationStatus,
                    backtestCalls, query, submitted,
                    outsideBuilder >>

\* onClick of "Next: Time Range"
NextTimeRange ==
    /\ step = 2
    /\ step' = 3
    /\ UNCHANGED << indexConfig, backtestResults, isRunning, mutationStatus,
                    backtestCalls, query, submitted,
                    outsideBuilder >>

(***************************************************************************)
(* Step 3: time range and submission.                                      *)
(***************************************************************************)
\* onChange of the Start Date input
SetStartDate ==
    /\ step = 3
    /\ \E d \in DateValues : indexConfig' = [indexConfig EXCEPT !.start_date = d]
    /\ UNCHANGED << step, backtestResults, isRunning, mutationStatus,
                    backtestCalls, query, submitted,
                    outsideBuilder >>

\* onChange of the End Date input
SetEndDate ==
    /\ step = 3
    /\ \E d \in DateValues : indexConfig' = [indexConfig EXCEPT !.end_date = d]
    /\ UNCHANGED << step, backtestResults, isRunning, mutationStatus,
                    backtestCalls, query, submitted,
                    outsideBuilder >>

\* faulty variant: the button of step 3 goes back to step 1
BackToFilters_ToBasicInfo ==
    /\ step = 3
    /\ step' = 1
    /\ UNCHANGED << indexConfig, backtestResults, isRunning, mutationStatus,
                    backtestCalls, query, submitted,
                    outsideBuilder >>

\* onClick of "Back" on step 3
BackToFilters ==
    /\ step = 3
    /\ step' = 2
    /\ UNCHANGED << indexConfig, backtestResults, isRunning, mutationStatus,
                    backtestCalls, query, submitted,
                    outsideBuilder >>

\* faulty variant: the button is not disabled while a backtest is running
RunBacktestEnabled_IgnoresRunning == DateTruthy(indexConfig.start_date)

\* the "Run Backtest" button: disabled={!indexConfig.start_date || isRunning}
RunBacktestEnabled == DateTruthy(indexConfig.start_date) /\ ~isRunning

\* handleRunBacktest up to its await: the flag is raised and the mutation
\* posts the configuration of the current render
handleRunBacktest ==
    /\ step = 3
    /\ RunBacktestEnabled
    /\ isRunning' = TRUE
    /\ mutationStatus' = "pending"
    /\ backtestCalls' = Append(backtestCalls,
                          [state |-> "sent", body |-> indexConfig,
                           data |-> Null, by |-> "user"])
    /\ submitted' = IF submitted = "none" THEN "one" ELSE "many"
    /\ UNCHANGED << step, indexConfig, backtestResults, query,
                    outsideBuilder >>

(***************************************************************************)
(* The backend and the network, for the backtest requests.                 *)
(***************************************************************************)
\* the backend answers a request 2xx with a BacktestResult
BackendReturnsResult ==
    \E i \in DOMAIN backtestCalls :
        /\ backtestCalls[i].state = "sent"
        /\ \E p \in Payloads :
              backtestCalls' = [backtestCalls EXCEPT ![i].state = "ok",
                                                     ![i].data = p]
        /\ UNCHANGED << step, indexConfig, backtestResults, isRunning,
                        mutationStatus, query, submitted,
                    outsideBuilder >>

\* a request fails: network error, timeout or an error status
BackendFails ==
    \E i \in DOMAIN backtestCalls :
        /\ backtestCalls[i].state = "sent"
        /\ backtestCalls' = [backtestCalls EXCEPT ![i].state = "fail"]
        /\ UNCHANGED << step, indexConfig, backtestResults, isRunning,
                        mutationStatus, query, submitted,
                    outsideBuilder >>

\* faulty variant: onSuccess moves to step 4 without storing the result
BacktestSucceeded_DropsResult ==
    \E i \in DOMAIN backtestCalls :
        /\ backtestCalls[i].state = "ok"
        /\ step' = 4
        /\ isRunning' = FALSE
        /\ mutationStatus' = "success"
        /\ backtestCalls' = RemoveAt(backtestCalls, i)
        /\ UNCHANGED << indexConfig, backtestResults, query, submitted,
                        outsideBuilder >>

\* faulty variant: onSuccess stores the result and leaves the step alone
BacktestSucceeded_KeepsStep ==
    \E i \in DOMAIN backtestCalls :
        /\ backtestCalls[i].state = "ok"
        /\ backtestResults' = backtestCalls[i].data
        /\ isRunning' = FALSE
        /\ mutationStatus' = "success"
        /\ backtestCalls' = RemoveAt(backtestCalls, i)
        /\ UNCHANGED << step, indexConfig, query, submitted,
                    outsideBuilder >>

\* the mutation settles with a result: onSuccess, then the finally block of
\* handleRunBacktest
BacktestSucceeded ==
    \E i \in DOMAIN backtestCalls :
        /\ backtestCalls[i].state = "ok"
        /\ backtestResults' = backtestCalls[i].data
        /\ step' = 4
        /\ isRunning' = FALSE
        /\ mutationStatus' = "success"
        /\ backtestCalls' = RemoveAt(backtestCalls, i)
        /\ UNCHANGED << indexConfig, query, submitted,
                    outsideBuilder >>

\* faulty variant: handleRunBacktest has no finally block
BacktestFailed_KeepsRunning ==
    \E i \in DOMAIN backtestCalls :
        /\ backtestCalls[i].state = "fail"
        /\ mutationStatus' = "error"
        /\ backtestCalls' = RemoveAt(backtestCalls, i)
        /\ UNCHANGED << step, indexConfig, backtestResults, isRunning, query,
                        submitted, outsideBuilder >>

\* faulty variant: the failed request is sent again instead of being given up
BacktestFailed_Reissues ==
    \E i \in DOMAIN backtestCalls :
        /\ backtestCalls[i].state = "fail"
        /\ backtestCalls' = [backtestCalls EXCEPT ![i].state = "sent",
                                                 ![i].by = "retry"]
        /\ UNCHANGED << step, indexConfig, backtestResults, isRunning,
                        mutationStatus, query, submitted,
                    outsideBuilder >>

\* the mutation settles with an error: onError logs, then the finally block
\* of handleRunBacktest; the mutation has no retry option
BacktestFailed ==
    \E i \in DOMAIN backtestCalls :
        /\ backtestCalls[i].state = "fail"
        /\ isRunning' = FALSE
        /\ mutationStatus' = "error"
        /\ backtestCalls' = RemoveAt(backtestCalls, i)
        /\ UNCHANGED << step, indexConfig, backtestResults, query, submitted,
                    outsideBuilder >>

(***************************************************************************)
(* Step 4: results.                                                        *)
(***************************************************************************)
\* the action buttons are rendered inside {backtestResults && (...)}
ResultsShown == step = 4 /\ backtestResults # Null

\* onClick of "Create Another Index"
CreateAnotherIndex ==
    /\ ResultsShown
    /\ step' = 1
    /\ submitted' = "none"
    /\ UNCHANGED << indexConfig, backtestResults, isRunning, mutationStatus,
                    backtestCalls, query,
                    outsideBuilder >>

(***************************************************************************)
(* What the component renders, as the set of its elements.                 *)
(***************************************************************************)
renderStep1 ==
    {"index-name-input", "description-input", "weighting-method-select",
     "next-filters-button"}

renderStep2 ==
    {"sector-checkboxes", "country-checkboxes", "min-market-cap-input",
     "max-market-cap-input", "max-constituents-input", "back-button",
     "next-time-range-button"}

renderStep3 ==
    {"start-date-input", "end-date-input", "index-summary", "back-button",
     "run-backtest-button"}
    \cup (IF isRunning THEN {"running-spinner"} ELSE {})

renderStep4 ==
    IF backtestResults # Null
    THEN {"performance-chart", "performance-metrics",
          "create-another-index-button", "save-index-button",
          "export-results-button"}
    ELSE {}

\* the return value of IndexBuilder
Rendered ==
    {"page-header", "progress-indicator"}
    \cup (IF step = 1 THEN renderStep1 ELSE {})
    \cup (IF step = 2 THEN renderStep2 ELSE {})
    \cup (IF step = 3 THEN renderStep3 ELSE {})
    \cup (IF step = 4 THEN renderStep4 ELSE {})

(***************************************************************************)
(* The sectors and countries queries.                                      *)
(***************************************************************************)
\* the GET is answered and the fetch resolves
QuerySucceeded(k) ==
    /\ query[k].call = "sent"
    /\ query' = [query EXCEPT ![k] =
                    [@ EXCEPT !.status = "success", !.failureCount = 0,
                              !.call = "none"]]
    /\ UNCHANGED << wizardVars, outsideBuilder >>

\* the GET fails and the fetch rejects: the retryer of the query client
\* schedules another attempt while failureCount < retry, and gives up otherwise
QueryFailed(k) ==
    /\ query[k].call = "sent"
    /\ IF query[k].failureCount < QueryRetry
       THEN query' = [query EXCEPT ![k].failureCount = @ + 1,
                                   ![k].call = "wait"]
       ELSE query' = [query EXCEPT ![k].status = "error",
                                   ![k].call = "none"]
    /\ UNCHANGED << wizardVars, outsideBuilder >>

\* the retry delay has passed: the retryer runs the query function again
QueryRetryFires(k) ==
    /\ query[k].call = "wait"
    /\ query' = [query EXCEPT ![k].call = "sent", ![k].by = "timer"]
    /\ UNCHANGED << wizardVars, outsideBuilder >>

(***************************************************************************)
(* Step 2: the filter inputs.                                              *)
(***************************************************************************)
\* the data of the sectors and of the countries query
Sectors == {"Technology", "Energy"}
Countries == {"US"}

\* the options a query offers once it has data
Options(k) ==
    IF query[k].status # "success" THEN {}
    ELSE IF k = "sectors" THEN Sectors ELSE Countries

\* what an input of type number can hold besides '': the texts -1, 0, 1.5, 2
NumberTexts == {<< "-", "1" >>, << "0" >>, << "1", ".", "5" >>, << "2" >>}

NumberFilters == {"min_market_cap", "max_market_cap", "max_constituents"}

\* Array.prototype.includes
Includes(list, v) == \E i \in DOMAIN list : list[i] = v

\* list.filter(x => x !== v)
Without(list, v) == SelectSeq(list, LAMBDA x : x # v)

\* handleFilterChange: the filters of the previous configuration with one key
\* replaced
handleFilterChange(key, value) ==
    indexConfig' = [indexConfig EXCEPT !.filters = [@ EXCEPT ![key] = value]]

\* faulty variant: the handler takes every change for a check
targetChecked_Always(list, v) == TRUE

\* e.target.checked in onChange: the box is rendered with
\* checked = list.includes(v), and the click has flipped it
targetChecked(list, v) == ~Includes(list, v)

\* onChange of a sector or country checkbox
ToggleOption(k) ==
    /\ step = 2
    /\ \E v \in Options(k) :
          handleFilterChange(k,
              IF targetChecked(indexConfig.filters[k], v)
              THEN Append(indexConfig.filters[k], v)
              ELSE Without(indexConfig.filters[k], v))
    /\ UNCHANGED << step, backtestResults, isRunning, mutationStatus,
                    backtestCalls, query, submitted, outsideBuilder >>

\* onChange of a number input: e.target.value is stored as it is
SetNumberFilter(key) ==
    /\ step = 2
    /\ \E v \in NumberTexts \cup {<< >>} : handleFilterChange(key, v)
    /\ UNCHANGED << step, backtestResults, isRunning, mutationStatus,
                    backtestCalls, query, submitted, outsideBuilder >>

\* the value of a decimal digit
DigitValue(c) ==
    CASE c = "0" -> 0 [] c = "1" -> 1 [] c = "2" -> 2 [] c = "3" -> 3
      [] c = "4" -> 4 [] c = "5" -> 5 [] c = "6" -> 6 [] c = "7" -> 7
      [] c = "8" -> 8 [] c = "9" -> 9

\* the value of a sequence of digits
RECURSIVE DigitsValue(_)
DigitsValue(s) ==
    IF s = << >> THEN 0
    ELSE 10 * DigitsValue(SubSeq(s, 1, Len(s) - 1)) + DigitValue(s[Len(s)])

\* The number a text of a number input denotes, in tenths: an optional sign,
\* digits, and at most one digit after the point.
Tenths(t) ==
    LET neg    == t[1] = "-"
        body   == IF neg THEN Tail(t) ELSE t
        points == {i \in DOMAIN body : body[i] = "."}
        whole  == IF points = {} THEN body
                  ELSE SubSeq(body, 1, (CHOOSE i \in points : TRUE) - 1)
        frac   == IF points = {} THEN << >>
                  ELSE SubSeq(body, (CHOOSE i \in points : TRUE) + 1, Len(body))
        abs    == 10 * DigitsValue(whole) + DigitsValue(frac)
    IN  IF neg THEN 0 - abs ELSE abs

(***************************************************************************)
(* The session: AuthProvider (contexts/AuthContext.tsx), the response      *)
(* interceptor of apiClient (services/api.ts), Login (pages/Login.tsx),    *)
(* Layout and Header (components/), Sidebar.                               *)
(***************************************************************************)
\* IndexBuilder and its queries, which no event of the session touches
builderVars == << wizardVars, query >>

\* the request interceptor of apiClient on top of the default headers: the
\* Authorization header a request issued now carries
RequestAuthorization ==
    IF localStorage # null THEN localStorage ELSE apiDefaults.Authorization

\* a request of AuthContext issued now
Request(url, by, anonymous) ==
    [url |-> url, by |-> by, anonymous |-> anonymous,
     authorization |-> RequestAuthorization, stored |-> localStorage]

\* A document freshly loaded at route l with saved in localStorage, after the
\* effect of AuthProvider has run: with a saved token the token is restored
\* and fetchUserInfo is called, isLoading staying true; without, isLoading
\* becomes false.
Loaded(l, saved) ==
    [authContext |-> IF saved # null
                     THEN [AuthProviderMounted EXCEPT !.token = saved]
                     ELSE [AuthProviderMounted EXCEPT !.isLoading = FALSE],
     apiDefaults |-> [Authorization |-> saved],
     loginPage   |-> LoginMounted,
     authCalls   |-> IF saved # null
                     THEN << [url |-> "/users/me", by |-> "mount",
                              anonymous |-> FALSE, authorization |-> saved,
                              stored |-> saved] >>
                     ELSE << >>,
     location    |-> l]

\* the next state is a document freshly loaded at l
Mount(l, saved) ==
    /\ authContext' = Loaded(l, saved).authContext
    /\ apiDefaults' = Loaded(l, saved).apiDefaults
    /\ loginPage' = Loaded(l, saved).loginPage
    /\ authCalls' = Loaded(l, saved).authCalls
    /\ location' = Loaded(l, saved).location
    /\ pendingNavigation' = null

\* the user opens the application at a route, with or without a saved token
InitSession ==
    /\ InitWizard
    /\ localStorage \in {null, AccessToken}
    /\ \E l \in Routes :
          /\ authContext = Loaded(l, localStorage).authContext
          /\ apiDefaults = Loaded(l, localStorage).apiDefaults
          /\ loginPage = Loaded(l, localStorage).loginPage
          /\ authCalls = Loaded(l, localStorage).authCalls
          /\ location = Loaded(l, localStorage).location
    /\ pendingNavigation = null
    /\ lastEvent = NoEvent
    /\ securitiesPage = SecuritiesMounted
    /\ deployRun = DeployNotStarted

\* the user reloads the page or opens another route in the address bar
PageLoad ==
    \E l \in Routes :
        /\ Mount(l, localStorage)
        /\ lastEvent' = [name |-> "load", anonymous |-> FALSE]
        /\ UNCHANGED << localStorage, outsideSession >>

\* The document assigned to window.location.href replaces the current one:
\* its requests and its state are gone, AuthProvider mounts again.
DocumentReplaced ==
    /\ pendingNavigation # null
    /\ Mount(pendingNavigation, localStorage)
    /\ UNCHANGED << localStorage, lastEvent, outsideSession >>

\* Layout renders Sidebar, Header and the Outlet
ContentShown ==
    /\ location \in ProtectedRoutes
    /\ ~authContext.isLoading
    /\ isAuthenticated

\* the effect of Layout
LayoutRedirect ==
    /\ location \in ProtectedRoutes
    /\ ~authContext.isLoading
    /\ ~isAuthenticated
    /\ location' = "/login"
    /\ loginPage' = LoginMounted
    /\ lastEvent' = [name |-> "redirect", anonymous |-> FALSE]
    /\ UNCHANGED << localStorage, authContext, apiDefaults, authCalls,
                    pendingNavigation,
                    outsideSession >>

\* a Link of Sidebar
FollowLink ==
    /\ ContentShown
    /\ \E l \in ProtectedRoutes : location' = l
    /\ lastEvent' = [name |-> "link", anonymous |-> FALSE]
    /\ UNCHANGED << localStorage, authContext, apiDefaults, loginPage,
                    authCalls, pendingNavigation,
                    outsideSession >>

\* faulty variant: the default header is kept
logout_KeepsHeader ==
    /\ localStorage' = null
    /\ authContext' = [authContext EXCEPT !.token = null, !.user = null]
    /\ apiDefaults' = apiDefaults

\* logout of the context
logout ==
    /\ localStorage' = null
    /\ authContext' = [authContext EXCEPT !.token = null, !.user = null]
    /\ apiDefaults' = [Authorization |-> null]

\* handleLogout of Header: logout(), then navigate('/login')
handleLogout ==
    /\ ContentShown
    /\ logout
    /\ location' = "/login"
    /\ loginPage' = LoginMounted
    /\ lastEvent' = [name |-> "logout", anonymous |-> FALSE]
    /\ UNCHANGED << authCalls, pendingNavigation,
                    outsideSession >>

(***************************************************************************)
(* The login form.                                                         *)
(***************************************************************************)
\* onChange of the username input, which is disabled while isLoading
SetUsername ==
    /\ location = "/login"
    /\ ~loginPage.isLoading
    /\ \E v \in Usernames : loginPage' = [loginPage EXCEPT !.username = v]
    /\ lastEvent' = [name |-> "edit", anonymous |-> FALSE]
    /\ UNCHANGED << localStorage, authContext, apiDefaults, authCalls,
                    location, pendingNavigation,
                    outsideSession >>

\* onChange of the password input, which is disabled while isLoading
SetPassword ==
    /\ location = "/login"
    /\ ~loginPage.isLoading
    /\ \E v \in Passwords : loginPage' = [loginPage EXCEPT !.password = v]
    /\ lastEvent' = [name |-> "edit", anonymous |-> FALSE]
    /\ UNCHANGED << localStorage, authContext, apiDefaults, authCalls,
                    location, pendingNavigation,
                    outsideSession >>

\* faulty variant: the submit button is never disabled
SubmitEnabled_Always == TRUE

\* the submit button is disabled while isLoading
SubmitEnabled == ~loginPage.isLoading

\* handleSubmit of Login up to the await: both inputs are required, so the
\* browser submits the form only when both are filled
handleSubmit ==
    /\ location = "/login"
    /\ SubmitEnabled
    /\ loginPage.username # ""
    /\ loginPage.password # ""
    /\ loginPage' = [loginPage EXCEPT !.error = "", !.isLoading = TRUE]
    /\ authCalls' = Append(authCalls,
                           Request("/auth/token", "login",
                                   localStorage = null /\ ~isAuthenticated))
    /\ lastEvent' = [name |-> "submit",
                     anonymous |-> localStorage = null /\ ~isAuthenticated]
    /\ UNCHANGED << localStorage, authContext, apiDefaults, location,
                    pendingNavigation,
                    outsideSession >>

(***************************************************************************)
(* Responses.  An answer with status 401 passes the response interceptor,  *)
(* which removes the token and assigns window.location.href; the rejection *)
(* handlers then run in the current document, which lives on until the     *)
(* document of /login replaces it (DocumentReplaced).                      *)
(***************************************************************************)
\* faulty variant: the interceptor leaves the token in localStorage
Unauthorized_KeepsToken ==
    /\ localStorage' = localStorage
    /\ pendingNavigation' = "/login"

\* the response interceptor on status 401
Unauthorized ==
    /\ localStorage' = null
    /\ pendingNavigation' = "/login"

\* a request of the page shown under Layout (a query of Dashboard, Indices,
\* Securities or IndexBuilder, or a mutation) is answered 401
PageRequestUnauthorized ==
    /\ ContentShown
    /\ Unauthorized
    /\ lastEvent' = [name |-> "api401", anonymous |-> FALSE]
    /\ UNCHANGED << authContext, apiDefaults, loginPage, authCalls, location,
                    outsideSession >>

\* POST /auth/token is answered 200: login stores the token, sets the
\* hardcoded user and calls fetchUserInfo
TokenGranted ==
    \E i \in DOMAIN authCalls :
        /\ authCalls[i].url = "/auth/token"
        /\ localStorage' = AccessToken
        /\ authContext' = [authContext EXCEPT !.token = AccessToken,
                                              !.user = HardcodedUser]
        /\ apiDefaults' = [Authorization |-> AccessToken]
        /\ authCalls' = Append(RemoveAt(authCalls, i),
                               [url |-> "/users/me", by |-> "login",
                                anonymous |-> authCalls[i].anonymous,
                                authorization |-> AccessToken,
                                stored |-> AccessToken])
        /\ lastEvent' = [name |-> "tokenGranted",
                         anonymous |-> authCalls[i].anonymous]
        /\ UNCHANGED << loginPage, location, pendingNavigation,
                    outsideSession >>

\* POST /auth/token is answered 401: the interceptor, then login rethrows
\* and handleSubmit sets the error and, in finally, isLoading
TokenUnauthorized ==
    \E i \in DOMAIN authCalls :
        /\ authCalls[i].url = "/auth/token"
        /\ Unauthorized
        /\ loginPage' = [loginPage EXCEPT !.error = "Login failed",
                                          !.isLoading = FALSE]
        /\ authCalls' = RemoveAt(authCalls, i)
        /\ lastEvent' = [name |-> "login401",
                         anonymous |-> authCalls[i].anonymous]
        /\ UNCHANGED << authContext, apiDefaults, location, outsideSession >>

\* POST /auth/token fails otherwise (another status, or no response): login
\* rethrows, handleSubmit sets the error and, in finally, isLoading
TokenFailed ==
    \E i \in DOMAIN authCalls :
        /\ authCalls[i].url = "/auth/token"
        /\ loginPage' = [loginPage EXCEPT !.error = "Login failed",
                                          !.isLoading = FALSE]
        /\ authCalls' = RemoveAt(authCalls, i)
        /\ lastEvent' = [name |-> "loginFailed",
                         anonymous |-> authCalls[i].anonymous]
        /\ UNCHANGED << localStorage, authContext, apiDefaults, location,
                        pendingNavigation,
                    outsideSession >>

\* what follows await login() in handleSubmit: navigate('/'), which unmounts
\* Login
LoginReturns ==
    /\ location' = "/"
    /\ loginPage' = LoginMounted

\* GET /users/me is answered 200: fetchUserInfo sets the user; it has no
\* finally, so isLoading is left as it is
UserInfoFetched ==
    \E i \in DOMAIN authCalls :
        /\ authCalls[i].url = "/users/me"
        /\ authContext' = [authContext EXCEPT !.user = FetchedUser]
        /\ authCalls' = RemoveAt(authCalls, i)
        /\ IF authCalls[i].by = "login"
           THEN LoginReturns
           ELSE UNCHANGED << loginPage, location >>
        /\ lastEvent' = [name |-> IF authCalls[i].by = "login"
                                  THEN "loginCompleted"
                                  ELSE "userInfoFetched",
                         anonymous |-> authCalls[i].anonymous]
        /\ UNCHANGED << localStorage, apiDefaults, pendingNavigation,
                    outsideSession >>

\* GET /users/me is answered 401: the interceptor, then the catch of
\* fetchUserInfo, and for a login what follows await login()
UserInfoUnauthorized ==
    \E i \in DOMAIN authCalls :
        /\ authCalls[i].url = "/users/me"
        /\ Unauthorized
        /\ authContext' = [authContext EXCEPT !.token = null]
        /\ apiDefaults' = [Authorization |-> null]
        /\ authCalls' = RemoveAt(authCalls, i)
        /\ IF authCalls[i].by = "login"
           THEN LoginReturns
           ELSE UNCHANGED << loginPage, location >>
        /\ lastEvent' = [name |-> "userInfo401",
                         anonymous |-> authCalls[i].anonymous]
        /\ UNCHANGED outsideSession

\* GET /users/me fails otherwise: fetchUserInfo removes the token and
\* rethrows; login catches and logs, so handleSubmit goes on as after a
\* success
UserInfoFailed ==
    \E i \in DOMAIN authCalls :
        /\ authCalls[i].url = "/users/me"
        /\ localStorage' = null
        /\ authContext' = [authContext EXCEPT !.token = null]
        /\ apiDefaults' = [Authorization |-> null]
        /\ authCalls' = RemoveAt(authCalls, i)
        /\ IF authCalls[i].by = "login"
           THEN LoginReturns
           ELSE UNCHANGED << loginPage, location >>
        /\ lastEvent' = [name |-> IF authCalls[i].by = "login"
                                  THEN "loginUserInfoFailed"
                                  ELSE "userInfoFailed",
                         anonymous |-> authCalls[i].anonymous]
        /\ UNCHANGED << pendingNavigation, outsideSession >>

(***************************************************************************)
(* The Securities page (pages/Securities.tsx): the two bulk market-cap     *)
(* updates and the notification they raise.  Every setTimeout of the page  *)
(* has the same delay, so the timers fire in the order they were set.      *)
(***************************************************************************)
\* the bulk updates in flight of one kind
UpdateCalls(kind) ==
    {i \in DOMAIN securitiesPage.calls : securitiesPage.calls[i].kind = kind}

\* the securities query has loaded: securities?.data is set
SecuritiesLoaded ==
    /\ ~securitiesPage.data
    /\ securitiesPage' = [securitiesPage EXCEPT !.data = TRUE]
    /\ UNCHANGED << builderVars, sessionVars, deployRun >>

\* faulty variant: "Update Visible" looks at its own mutation only
BatchButtonEnabled_IgnoresOther == securitiesPage.batch # "pending"

\* "Update Visible": disabled={batchUpdateMarketCapMutation.isPending ||
\* updateAllMarketCapMutation.isPending}
BatchButtonEnabled ==
    securitiesPage.batch # "pending" /\ securitiesPage.all # "pending"

\* "Update All": disabled={updateAllMarketCapMutation.isPending ||
\* batchUpdateMarketCapMutation.isPending}
AllButtonEnabled ==
    securitiesPage.all # "pending" /\ securitiesPage.batch # "pending"

\* handleBatchUpdateMarketCap: returns at once without securities?.data
handleBatchUpdateMarketCap ==
    /\ BatchButtonEnabled
    /\ securitiesPage.data
    /\ securitiesPage.started < MaxUpdates
    /\ securitiesPage' =
          [securitiesPage EXCEPT
              !.batch = "pending",
              !.calls = Append(@, [kind |-> "batch"]),
              !.started = @ + 1]
    /\ UNCHANGED << builderVars, sessionVars, deployRun >>

\* handleUpdateAllMarketCap, the confirm dialog answered with OK
handleUpdateAllMarketCap ==
    /\ AllButtonEnabled
    /\ securitiesPage.started < MaxUpdates
    /\ securitiesPage' =
          [securitiesPage EXCEPT
              !.all = "pending",
              !.calls = Append(@, [kind |-> "all"]),
              !.started = @ + 1]
    /\ UNCHANGED << builderVars, sessionVars, deployRun >>

\* the number of notifications raised so far
Raised ==
    securitiesPage.started - Len(securitiesPage.calls)

\* onSuccess or onError of a bulk update: the mutation settles, the
\* notification is set and a timer is started that will set it to null
UpdateSettles(kind, outcome) ==
    \E i \in UpdateCalls(kind) :
        /\ securitiesPage' =
              [securitiesPage EXCEPT
                  ![kind] = outcome,
                  !.calls = RemoveAt(@, i),
                  !.notification = [type |-> outcome, id |-> Raised + 1],
                  !.timers = Append(@, Raised + 1)]
        /\ UNCHANGED << builderVars, sessionVars, deployRun >>

\* the callback of setTimeout: () => setNotification(null)
TimerCallback(n) == NoNotification

\* the oldest timer fires
TimerFires ==
    /\ securitiesPage.timers # << >>
    /\ securitiesPage' =
          [securitiesPage EXCEPT
              !.notification = TimerCallback(@),
              !.timers = Tail(@)]
    /\ UNCHANGED << builderVars, sessionVars, deployRun >>

\* onClick of the close button of the notification
DismissNotification ==
    /\ securitiesPage.notification # NoNotification
    /\ securitiesPage' = [securitiesPage EXCEPT !.notification = NoNotification]
    /\ UNCHANGED << builderVars, sessionVars, deployRun >>

(***************************************************************************)
(* The deployment script (scripts/deploy.sh): the commands of DeployScript *)
(* run one after the other against a cluster whose pods become ready, and  *)
(* unready, on their own.                                                  *)
(***************************************************************************)
\* faulty variant: the script without set -e
errexit_Off == FALSE

\* set -e: the shell exits when a command fails
errexit == TRUE

\* the command the script is at
Command == DeployScript[deployRun.pc]

\* the script has commands left to run
Running ==
    deployRun.status = "running" /\ deployRun.pc <= Len(DeployScript)

\* the effect of a command that succeeds: kubectl apply creates the
\* resource, kubectl wait has seen the pod ready, echo prints
Effect(c) ==
    CASE c.cmd = "apply" -> [deployRun EXCEPT !.applied = @ \cup {c.arg}]
      [] c.cmd = "wait"  -> [deployRun EXCEPT !.reported = @ \cup {c.arg}]
      [] c.cmd = "echo"  -> [deployRun EXCEPT !.output = @ \cup {c.arg}]
      [] OTHER           -> deployRun

\* the command succeeds and the script goes on with the next line; kubectl
\* wait succeeds only on a pod that is ready
CommandSucceeds ==
    /\ Running
    /\ Command.cmd = "wait" => Command.arg \in deployRun.ready
    /\ deployRun' =
          [Effect(Command) EXCEPT
              !.pc = @ + 1,
              !.done = @ \cup {deployRun.pc},
              !.status = IF deployRun.pc = Len(DeployScript)
                         THEN "succeeded" ELSE "running"]
    /\ UNCHANGED << builderVars, sessionVars, securitiesPage >>

\* the command fails (the daemon is down, a build or an apply fails, kubectl
\* wait times out): the two checks exit 1 themselves, any other failure ends
\* the script by set -e
CommandFails ==
    /\ Running
    /\ Command.cmd # "echo"
    /\ deployRun' =
          IF Command.cmd = "check" \/ errexit
          THEN [deployRun EXCEPT !.status = "failed"]
          ELSE [deployRun EXCEPT !.pc = @ + 1]
    /\ UNCHANGED << builderVars, sessionVars, securitiesPage >>

\* a pod of an applied deployment becomes ready
PodBecomesReady(app) ==
    /\ app \in deployRun.applied
    /\ app \notin deployRun.ready
    /\ deployRun' = [deployRun EXCEPT !.ready = @ \cup {app}]
    /\ UNCHANGED << builderVars, sessionVars, securitiesPage >>

\* a ready pod stops being ready
PodBecomesUnready(app) ==
    /\ app \in deployRun.ready
    /\ deployRun' = [deployRun EXCEPT !.ready = @ \ {app}]
    /\ UNCHANGED << builderVars, sessionVars, securitiesPage >>

(***************************************************************************)
(* Specifications.                                                         *)
(***************************************************************************)
\* the events of the wizard
NextWizard ==
    \/ SetName
    \/ NextFilters
    \/ BackToBasicInfo
    \/ NextTimeRange
    \/ SetStartDate
    \/ SetEndDate
    \/ BackToFilters
    \/ handleRunBacktest
    \/ BackendReturnsResult
    \/ BackendFails
    \/ BacktestSucceeded
    \/ BacktestFailed
    \/ CreateAnotherIndex

\* the events of the two queries
NextQueries ==
    \/ \E k \in QueryKeys : QuerySucceeded(k)
    \/ \E k \in QueryKeys : QueryFailed(k)
    \/ \E k \in QueryKeys : QueryRetryFires(k)

\* The wizard.  The queries share no state with it: no wizard event reads or
\* writes query, no query event reads or writes the wizard's state.
Spec == Init /\ [][NextWizard]_vars

\* The whole page: the wizard and its two queries.
Next == NextWizard \/ NextQueries

SpecNet == Init /\ [][Next]_vars

TypeOK ==
    /\ step \in 1..4
    /\ indexConfig.name \in Names
    /\ indexConfig.start_date \in DateValues
    /\ indexConfig.end_date \in DateValues
    /\ backtestResults \in {Null} \cup Payloads
    /\ isRunning \in BOOLEAN
    /\ mutationStatus \in {"idle", "pending", "success", "error"}
    /\ \A i \in DOMAIN backtestCalls :
          backtestCalls[i].state \in {"sent", "ok", "fail"}
    /\ submitted \in {"none", "one", "many"}

\* The wizard with the fairness the event loop gives: the callbacks of a
\* settled promise are run.
FairSpec ==
    /\ Spec
    /\ WF_vars(BacktestSucceeded)
    /\ WF_vars(BacktestFailed)

\* the events of step 2 and the steps around it
NextFilterEdits ==
    \/ SetName
    \/ SetWeightingMethod
    \/ NextFilters
    \/ BackToBasicInfo
    \/ NextTimeRange
    \/ BackToFilters
    \/ \E k \in QueryKeys : ToggleOption(k)
    \/ \E key \in NumberFilters : SetNumberFilter(key)
    \/ \E k \in QueryKeys : QuerySucceeded(k)
    \/ \E k \in QueryKeys : QueryFailed(k)
    \/ \E k \in QueryKeys : QueryRetryFires(k)

\* The wizard while the user edits the filters: no backtest is run.
SpecFilters == Init /\ [][NextFilterEdits]_vars

\* the events of a wizard whose number filters the user edits, up to the
\* submission
NextFilterSubmit ==
    \/ SetName
    \/ NextFilters
    \/ BackToBasicInfo
    \/ \E key \in NumberFilters : SetNumberFilter(key)
    \/ NextTimeRange
    \/ BackToFilters
    \/ SetStartDate
    \/ handleRunBacktest

\* The wizard from its opening to the submission, the number filters
\* included.
SpecFilterSubmit == Init /\ [][NextFilterSubmit]_vars

\* the events of the Securities page
NextSecurities ==
    \/ SecuritiesLoaded
    \/ handleBatchUpdateMarketCap
    \/ handleUpdateAllMarketCap
    \/ \E outcome \in {"success", "error"} : UpdateSettles("batch", outcome)
    \/ \E outcome \in {"success", "error"} : UpdateSettles("all", outcome)
    \/ TimerFires
    \/ DismissNotification

\* The Securities page.
SpecSecurities == Init /\ [][NextSecurities]_vars

\* The Securities page with the fairness of the browser: requests settle and
\* timers fire.
FairSecurities ==
    /\ SpecSecurities
    /\ WF_vars(\E outcome \in {"success", "error"} :
                  UpdateSettles("batch", outcome))
    /\ WF_vars(\E outcome \in {"success", "error"} :
                  UpdateSettles("all", outcome))
    /\ WF_vars(TimerFires)

\* the steps of a run of the deployment script and of its cluster
NextDeploy ==
    \/ CommandSucceeds
    \/ CommandFails
    \/ \E app \in Apps : PodBecomesReady(app)
    \/ \E app \in Apps : PodBecomesUnready(app)

\* A run of the deployment script.
SpecDeploy == Init /\ [][NextDeploy]_vars

\* the events of the session
NextSession ==
    \/ PageLoad
    \/ DocumentReplaced
    \/ LayoutRedirect
    \/ FollowLink
    \/ handleLogout
    \/ SetUsername
    \/ SetPassword
    \/ handleSubmit
    \/ TokenGranted
    \/ TokenUnauthorized
    \/ TokenFailed
    \/ UserInfoFetched
    \/ UserInfoUnauthorized
    \/ UserInfoFailed
    \/ PageRequestUnauthorized

\* The session: authentication, login and routing.
SpecSession == InitSession /\ [][NextSession]_vars

\* some answer to POST /auth/token, some answer to GET /users/me
TokenAnswered == TokenGranted \/ TokenUnauthorized \/ TokenFailed
UserInfoAnswered == UserInfoFetched \/ UserInfoUnauthorized \/ UserInfoFailed

\* The session with the fairness the browser gives: every request is
\* eventually settled and its handlers run, and effects run after a render.
\* Nothing obliges the user to act.
FairSession ==
    /\ SpecSession
    /\ WF_vars(TokenAnswered)
    /\ WF_vars(UserInfoAnswered)
    /\ WF_vars(LayoutRedirect)
    /\ WF_vars(DocumentReplaced)

TypeOKSession ==
    /\ localStorage \in {null, AccessToken}
    /\ authContext.user \in {null, HardcodedUser, FetchedUser}
    /\ authContext.token \in {null, AccessToken}
    /\ authContext.isLoading \in BOOLEAN
    /\ apiDefaults.Authorization \in {null, AccessToken}
    /\ loginPage.username \in Usernames
    /\ loginPage.password \in Passwords
    /\ loginPage.error \in {"", "Login failed"}
    /\ loginPage.isLoading \in BOOLEAN
    /\ \A i \in DOMAIN authCalls :
          /\ authCalls[i].url \in {"/auth/token", "/users/me"}
          /\ authCalls[i].by \in {"mount", "login"}
    /\ location \in Routes
    /\ pendingNavigation \in {null, "/login"}

(***************************************************************************)
(* Properties.                                                             *)
(***************************************************************************)
\* the requests not yet answered
Outstanding == {i \in DOMAIN backtestCalls : backtestCalls[i].state = "sent"}

\* this step issues a backtest request
IssuesBacktest == Cardinality(Outstanding') > Cardinality(Outstanding)

C2_OneOutstandingBacktest ==
    Len(backtestCalls) <= 1

\* C2 witness: a request is in flight while the user, having edited the
\* configuration meanwhile, is on step 3 with a start date set.
C2_Witness ==
    /\ Len(backtestCalls) = 1
    /\ step = 3
    /\ DateTruthy(indexConfig.start_date)
    /\ backtestCalls[1].body # indexConfig

\* C3: once the backend has answered a backtest with a result p, the wizard
\* eventually is on step 4 showing p with isRunning back to false.
C3_SuccessShowsResults ==
    \A p \in Payloads :
        (\E i \in DOMAIN backtestCalls :
            backtestCalls[i].state = "ok" /\ backtestCalls[i].data = p)
        ~> (step = 4 /\ backtestResults = p /\ ~isRunning)

\* C3 witness: a successful response has been handled and its results are on
\* display, the user having left step 3 while the request was in flight.
C3_Witness ==
    /\ step = 4
    /\ backtestResults \in Payloads
    /\ ~isRunning
    /\ mutationStatus = "success"
    /\ backtestCalls = << >>
    /\ ~Truthy(indexConfig.name)

\* C4 (as claimed): after a failed backtest an error message and a retry
\* control are displayed.
C4_FailureShowsErrorAndRetry ==
    mutationStatus = "error" =>
        {"backtest-error", "retry-button"} \subseteq Rendered

\* C5: step stays in 1..4; between steps 1, 2 and 3 it moves by one step up
\* or down only; step 4 is entered only by handling a successful backtest
\* response; step 4 is left only by Create Another Index, to step 1.
C5_StepsSequential ==
    [][ /\ step \in 1..4 /\ step' \in 1..4
        /\ (step # 4 /\ step' # 4 /\ step' # step) =>
              /\ (step' = step + 1 \/ step' = step - 1)
              /\ UNCHANGED << backtestResults, isRunning, mutationStatus,
                              backtestCalls >>
        /\ (step # 4 /\ step' = 4) =>
              /\ mutationStatus' = "success"
              /\ \E i \in DOMAIN backtestCalls :
                    /\ backtestCalls[i].state = "ok"
                    /\ backtestResults' = backtestCalls[i].data
                    /\ backtestCalls' = RemoveAt(backtestCalls, i)
        /\ (step = 4 /\ step' # 4) =>
              /\ step' = 1
              /\ "create-another-index-button" \in Rendered
              /\ UNCHANGED << backtestResults, isRunning, mutationStatus,
                              backtestCalls >>
      ]_vars

\* C5 witness: step 4 was entered by a successful backtest and has been left
\* by Create Another Index.
C5_Witness ==
    /\ step = 1
    /\ mutationStatus = "success"
    /\ submitted = "none"

\* C6: every backtest request carries a configuration whose name and
\* start_date are both non-empty.
C6_SubmittedHasRequiredFields ==
    \A i \in DOMAIN backtestCalls :
        /\ Truthy(backtestCalls[i].body.name)
        /\ DateTruthy(backtestCalls[i].body.start_date)

\* C6 witness: a request is on its way and the user is on step 3 with the
\* configuration that was sent.
C6_Witness ==
    /\ Len(backtestCalls) = 1
    /\ backtestCalls[1].state = "sent"
    /\ backtestCalls[1].body = indexConfig
    /\ step = 3
    /\ isRunning

\* C7 (as claimed): every backtest request with both dates set has
\* start_date <= end_date.
C7_SubmittedDatesOrdered ==
    \A i \in DOMAIN backtestCalls :
        (DateTruthy(backtestCalls[i].body.start_date)
           /\ DateTruthy(backtestCalls[i].body.end_date))
        => backtestCalls[i].body.start_date <= backtestCalls[i].body.end_date

\* C8 (as claimed): leaving step 4 by Create Another Index puts the wizard on
\* step 1 with indexConfig equal to the initial configuration.
C8_ResetDiscardsConfig ==
    [][ (step = 4 /\ step' # 4) =>
            (step' = 1 /\ indexConfig' = InitialConfig) ]_vars

\* C9 (as claimed): between opening the wizard (or a reset) and the next
\* reset at most one backtest request is issued, whatever its outcome.
C9_SubmittedOnce ==
    submitted # "many"

\* C9 (amended): a backtest request is issued only if none was issued since
\* the wizard was opened or last reset, or if the latest request failed.
C9_ResubmitOnlyAfterFailure ==
    [][ IssuesBacktest => (submitted = "none" \/ mutationStatus = "error") ]_vars

\* C9 witness: after a failed request a further request of the same period is
\* in flight.
C9_Witness ==
    /\ submitted = "many"
    /\ Len(backtestCalls) = 1
    /\ mutationStatus = "pending"

\* C10 (as claimed): no request is re-issued automatically: every backtest
\* request, and every request of a query that has failed before, is issued by
\* a user action.
C10_NoAutomaticReissue ==
    /\ \A i \in DOMAIN backtestCalls : backtestCalls[i].by = "user"
    /\ \A k \in QueryKeys :
          (query[k].call = "sent" /\ query[k].failureCount > 0)
          => query[k].by = "user"

\* C10 (amended): every backtest request is issued by a user action, so a
\* failed one is never re-issued automatically; a query that failed is
\* re-issued by the retry timer of the query client, at most QueryRetry times.
C10_OnlyQueriesRetry ==
    /\ \A i \in DOMAIN backtestCalls : backtestCalls[i].by = "user"
    /\ \A k \in QueryKeys :
          /\ query[k].failureCount <= QueryRetry
          /\ (query[k].call = "sent" /\ query[k].failureCount > 0)
             => query[k].by = "timer"
          /\ (query[k].call = "sent" /\ query[k].failureCount = 0)
             => query[k].by = "mount"

\* C10 witness: a backtest has failed and nothing is in flight for it, while
\* a query that failed has been issued again.
C10_Witness ==
    /\ mutationStatus = "error"
    /\ backtestCalls = << >>
    /\ \E k \in QueryKeys :
          query[k].failureCount = 1 /\ query[k].call = "sent"

(***************************************************************************)
(* Properties of the session.                                              *)
(***************************************************************************)
\* the login attempts in flight: the POST, or the GET that login awaits
LoginCalls == {i \in DOMAIN authCalls : authCalls[i].by = "login"}

\* the last event was a failed login: POST /auth/token answered 401,
\* answered with another error status, or not answered
LoginFailures == {"login401", "loginFailed"}

\* the last event was an answer with status 401
Answers401 == {"login401", "userInfo401", "api401"}

\* the last event was an act of the user
UserActs == {"load", "link", "logout", "edit", "submit"}

\* C11: Protected content is rendered only while isAuthenticated holds and
\* the loading of the provider has finished; a visitor on a protected route
\* who holds no token (none saved, or the saved one removed because the
\* backend rejected it) is eventually redirected to /login.
C11_NoTokenRedirected ==
    /\ [](ContentShown => isAuthenticated /\ ~authContext.isLoading)
    /\ (location \in ProtectedRoutes /\ localStorage = null)
          ~> (location = "/login")

\* C12: When the backend accepts the credentials an anonymous visitor
\* submitted, the login ends with the token in localStorage, isAuthenticated
\* true and the protected content displayed, unless the user does something
\* else first.
C12_AcceptedLoginEndsAuthenticated ==
    (lastEvent.name = "tokenGranted" /\ lastEvent.anonymous)
      ~> \/ localStorage # null /\ isAuthenticated /\ ContentShown
         \/ lastEvent.name \in UserActs

\* C13: After a failed login of an anonymous visitor (credentials rejected,
\* or a network failure) the visitor is on the login page, unauthenticated,
\* with a non-empty error message and no token in localStorage.
C13_FailedLoginShowsError ==
    (lastEvent.name \in LoginFailures /\ lastEvent.anonymous)
      => /\ location = "/login"
         /\ loginPage.error # ""
         /\ localStorage = null
         /\ ~isAuthenticated

\* C14: Once the backend has accepted the token saved at page load, the
\* provider eventually leaves its loading state, authenticated, unless the
\* user does something else first.
C14_SavedTokenEndsLoading ==
    (lastEvent.name = "userInfoFetched")
      ~> \/ ~authContext.isLoading /\ isAuthenticated
         \/ lastEvent.name \in UserActs

\* C15: After any answer with status 401 there is no token in localStorage
\* and the browser has been sent to /login: the navigation is pending or has
\* happened; and unless the user does something else first, the browser is
\* eventually at /login with the user unauthenticated.
C15_UnauthorizedSignsOut ==
    /\ [](lastEvent.name \in Answers401
            => /\ localStorage = null
               /\ \/ pendingNavigation = "/login"
                  \/ location = "/login" /\ ~isAuthenticated)
    /\ (lastEvent.name \in Answers401)
          ~> \/ location = "/login" /\ ~isAuthenticated /\ localStorage = null
             \/ lastEvent.name \in UserActs

\* C15 witness: a request of a page was answered 401 and the document of
\* /login has replaced the page
C15_Witness ==
    /\ lastEvent.name = "api401"
    /\ pendingNavigation = null
    /\ localStorage = null
    /\ location = "/login"

\* C16: After logout there is no token in localStorage, token and user are
\* null, the default Authorization header is removed, isAuthenticated is
\* false and the application is at /login.
C16_LogoutClearsSession ==
    lastEvent.name = "logout"
      => /\ localStorage = null
         /\ authContext.token = null
         /\ authContext.user = null
         /\ apiDefaults.Authorization = null
         /\ ~isAuthenticated
         /\ location = "/login"

\* C16 witness: the user has logged out
C16_Witness ==
    /\ lastEvent.name = "logout"
    /\ location = "/login"
    /\ authContext.user = null

\* C17: isLoading of the login form is true exactly while a login attempt
\* is in progress, and at most one login request is in flight.
C17_LoadingWhileLoginInProgress ==
    /\ loginPage.isLoading <=> LoginCalls # {}
    /\ Cardinality(LoginCalls) <= 1

\* C17 witness: an attempt is in progress, the form is loading and its
\* submit button is disabled
C17_Witness ==
    /\ \E i \in DOMAIN authCalls : authCalls[i].url = "/auth/token"
    /\ loginPage.isLoading
    /\ ~SubmitEnabled

\* C18: After a failed login the password field is empty and the username
\* field still holds the submitted, non-empty, username.
C18_FailedLoginClearsPassword ==
    lastEvent.name \in LoginFailures
      => /\ loginPage.password = ""
         /\ loginPage.username # ""

\* the last event completed an operation of the provider: the mount check,
\* a login, a user-info fetch, a logout
AuthOperations ==
    {"load", "loginCompleted", "loginUserInfoFailed", "userInfoFetched",
     "userInfoFailed", "userInfo401", "logout"}

\* C26 (as claimed): after every completed operation of the provider a
\* non-null user implies a non-null token, and the token of the provider
\* equals the token in localStorage.
C26_AuthStateConsistent ==
    lastEvent.name \in AuthOperations
      => /\ authContext.user # null => authContext.token # null
         /\ authContext.token = localStorage

\* C27 (as claimed): every request carries in its Authorization header
\* exactly the token that is in localStorage when the request is issued: a
\* removed token is carried by no later request, a stored token by every
\* request.
C27_RequestsCarryStoredToken ==
    \A i \in DOMAIN authCalls :
        authCalls[i].authorization = authCalls[i].stored

(***************************************************************************)
(* Properties of the filters.                                              *)
(***************************************************************************)
\* the elements of a list
Range(list) == {list[i] : i \in DOMAIN list}

NoDuplicates(list) == Cardinality(Range(list)) = Len(list)

\* the configuration apart from the list of filter k
Others(config, k) ==
    [config EXCEPT !.filters = [@ EXCEPT ![k] = << >>]]

\* in this step exactly one option enters or leaves the list of filter k
OneOptionToggled(k) ==
    \E v \in Sectors \cup Countries :
        \/ /\ v \notin Range(indexConfig.filters[k])
           /\ Range(indexConfig'.filters[k])
                = Range(indexConfig.filters[k]) \cup {v}
        \/ /\ v \in Range(indexConfig.filters[k])
           /\ Range(indexConfig'.filters[k])
                = Range(indexConfig.filters[k]) \ {v}

\* C19: The sector and the country filter hold no value twice and only
\* values their checkboxes offer; a step that changes one of the two lists
\* adds or removes exactly one value and changes nothing else of the
\* configuration.
C19_FiltersAreSets ==
    /\ [](\A k \in QueryKeys :
            /\ NoDuplicates(indexConfig.filters[k])
            /\ Range(indexConfig.filters[k]) \subseteq Sectors \cup Countries)
    /\ [][\A k \in QueryKeys :
            indexConfig'.filters[k] # indexConfig.filters[k]
              => /\ OneOptionToggled(k)
                 /\ Others(indexConfig', k) = Others(indexConfig, k)]_vars

\* C19 witness: a sector was checked and unchecked again while another
\* sector, a country and a number filter are set
C19_Witness ==
    /\ indexConfig.filters.sectors = << "Energy" >>
    /\ indexConfig.filters.countries = << "US" >>
    /\ indexConfig.filters.max_constituents # << >>
    /\ step = 3

\* C20: In every submitted configuration each number filter is unset or
\* positive, and max_constituents, when set, is a positive integer.
C20_SubmittedNumbersPositive ==
    \A i \in DOMAIN backtestCalls :
        LET f == backtestCalls[i].body.filters
        IN  /\ \A key \in NumberFilters :
                  f[key] = << >> \/ Tenths(f[key]) > 0
            /\ f.max_constituents = << >>
                  \/ Tenths(f.max_constituents) % 10 = 0

(***************************************************************************)
(* Further properties of the wizard.                                       *)
(***************************************************************************)
\* C21: In every reachable state of the wizard weighting_method is one of
\* equal_weight, market_cap_weight, price_weight, revenue_weight, esg_weight.
C21_WeightingMethodInEnum ==
    indexConfig.weighting_method
      \in {"equal_weight", "market_cap_weight", "price_weight",
           "revenue_weight", "esg_weight"}

\* C21 witness: the user has chosen another method than the initial one and
\* moved on
C21_Witness ==
    /\ indexConfig.weighting_method = "esg_weight"
    /\ step = 2

\* C22 (as claimed): step becomes 4 only in a step that starts with
\* step = 3.
C22_Step4OnlyFromStep3 ==
    [][(step # 4 /\ step' = 4) => step = 3]_vars

\* this step runs the callbacks of the settled request i, whose state is st
Settles(i, st) ==
    /\ i \in DOMAIN backtestCalls
    /\ backtestCalls[i].state = st
    /\ backtestCalls' = RemoveAt(backtestCalls, i)

\* C23 (as claimed): when a response puts its results on step 4, the
\* configuration the wizard holds is the configuration that request sent.
C23_ResultsBelongToConfig ==
    [][\A i \in DOMAIN backtestCalls :
          (Settles(i, "ok") /\ step' = 4)
            => indexConfig' = backtestCalls[i].body]_vars

\* C24: backtestResults changes only when a successful response is handled,
\* every handled success stores its payload, and on step 4 backtestResults
\* is not null: it is null until the first success and afterwards the
\* payload of the most recent one.
C24_ResultsFromLatestSuccess ==
    /\ [](step = 4 => backtestResults # Null)
    /\ [][/\ backtestResults' # backtestResults
              => \E i \in DOMAIN backtestCalls : Settles(i, "ok")
          /\ \A i \in DOMAIN backtestCalls :
                Settles(i, "ok") => backtestResults' = backtestCalls[i].data
         ]_vars

\* C24 witness: a success has been handled and its payload is held on step 4
C24_Witness ==
    /\ step = 4
    /\ submitted = "one"
    /\ backtestResults = MaxPayload
    /\ mutationStatus = "success"

\* C25: handling a failed backtest leaves step, indexConfig and
\* backtestResults as they were, sets isRunning to false, and with a
\* start_date Run Backtest is enabled again.
C25_FailureChangesOnlyRunning ==
    [][\A i \in DOMAIN backtestCalls :
          Settles(i, "fail")
            => /\ UNCHANGED << step, indexConfig, backtestResults >>
               /\ ~isRunning'
               /\ DateTruthy(indexConfig'.start_date) => RunBacktestEnabled'
      ]_vars

\* C25 witness: a failure has been handled on step 3, with earlier results
\* still held
C25_Witness ==
    /\ mutationStatus = "error"
    /\ ~isRunning
    /\ step = 3
    /\ backtestResults # Null
    /\ RunBacktestEnabled

(***************************************************************************)
(* Properties of the Securities page.                                      *)
(***************************************************************************)
\* C28 (as claimed): a timer that fires while a notification is shown is the
\* timer started with that notification; and every notification is
\* eventually cleared.
C28_TimerClearsOwnNotification ==
    /\ [][(/\ securitiesPage.timers # << >>
            /\ securitiesPage'.timers = Tail(securitiesPage.timers)
            /\ securitiesPage.notification # NoNotification)
            => securitiesPage.notification.id = Head(securitiesPage.timers)
         ]_vars
    /\ \A n \in 1..MaxUpdates :
          (securitiesPage.notification.id = n)
            ~> (securitiesPage.notification.id # n)

\* C29: An "Update Visible" and an "Update All" request are never both in
\* flight, and of each kind at most one is in flight.
C29_BulkUpdatesExclusive ==
    /\ UpdateCalls("batch") = {} \/ UpdateCalls("all") = {}
    /\ Cardinality(UpdateCalls("batch")) <= 1
    /\ Cardinality(UpdateCalls("all")) <= 1

\* C29 witness: an update is in flight, both buttons are disabled, and an
\* update of the other kind has run before
C29_Witness ==
    /\ UpdateCalls("all") # {}
    /\ securitiesPage.batch = "success"
    /\ ~BatchButtonEnabled
    /\ ~AllButtonEnabled

(***************************************************************************)
(* Properties of the deployment script.                                    *)
(***************************************************************************)
\* the message of the last line
Completed == DeployScript[Len(DeployScript)].arg

\* C30: The commands run in the order of the script, every one before the
\* current line having succeeded; backend and frontend are applied only
\* after kubectl wait reported the postgres pod ready, the ingress only
\* after it reported the backend and the frontend pods ready; the closing
\* message is printed only if every command before it succeeded; and after
\* the first failing command the script does nothing more.
C30_DeployInOrder ==
    /\ [](/\ deployRun.done = 1..(deployRun.pc - 1)
          /\ deployRun.applied =
                {DeployScript[i].arg : i \in {j \in deployRun.done :
                                                 DeployScript[j].cmd = "apply"}}
          /\ deployRun.applied \cap {"backend", "frontend"} # {}
                => "postgres" \in deployRun.reported
          /\ "ingress" \in deployRun.applied
                => {"backend", "frontend"} \subseteq deployRun.reported
          /\ Completed \in deployRun.output
                => deployRun.done = DOMAIN DeployScript
          /\ deployRun.status = "failed" => Completed \notin deployRun.output)
    /\ [][deployRun.status = "failed"
            => deployRun' = [deployRun EXCEPT !.ready = deployRun'.ready]]_vars

\* C30 witness: a run that got through every line and printed the message
C30_Witness ==
    /\ deployRun.status = "succeeded"
    /\ Completed \in deployRun.output
    /\ "ingress" \in deployRun.applied
    /\ {"postgres", "backend", "frontend"} \subseteq deployRun.reported

====
